---- MODULE Spec2Model ----
(***************************************************************************)
(* csvdiff (src/src/main.rs): two CSV files are indexed by a composite     *)
(* key, the two indices are reconciled into a sequence of DiffRow records, *)
(* and the records are rendered as a truncated summary table.              *)
(*                                                                         *)
(* Strings are TLA+ strings.  The character "E" stands for a character     *)
(* whose UTF-8 encoding takes two bytes (such as U+00E9); every other      *)
(* character takes one byte.  Positions are 1-based here and 0-based in    *)
(* the source; lengths and byte counts are the source's.                   *)
(***************************************************************************)
EXTENDS Integers, Sequences, FiniteSets, TLC

VARIABLES
    args,          \* Args: key (sequence of names), ignore (set of names)
    csv,           \* header row of the file behind --file1 and --file2
    pc,            \* position of main
    call,          \* which read_csv_to_map call is running (1 or 2)
    key_indexes,   \* each call's key_indexes, once resolved
    map,           \* the running call's map
    consumed,      \* the records the running call's reader has yielded
    headers1, map1, headers2, map2,
    headers1_map, headers2_map,
    all_keys,      \* the keys the loop of main has still to visit
    visited,       \* the loop's iterations so far: <<key, match arm>>
    diffs,
    warned, printed, excel, err,
    t_in, t_out,   \* create_summary_table: its arguments and its result
    p_in, p_out    \* the missing-row preview: the row and the preview

vars == <<args, csv, pc, call, key_indexes, map, consumed, headers1, map1,
          headers2, map2, headers1_map, headers2_map, all_keys, visited,
          diffs, warned, printed, excel, err, t_in, t_out, p_in, p_out>>

mainVars == <<args, csv, pc, call, key_indexes, map, consumed, headers1, map1,
              headers2, map2, headers1_map, headers2_map, all_keys, visited,
              diffs, warned, printed, excel, err>>

(***************************************************************************)
(* Bounds of the model.                                                    *)
(***************************************************************************)
MaxRecords == 2

\* The runs: the header rows of file1 and file2, --key and --ignore.
Run(h1, h2, key, ignore) ==
    [csv |-> <<h1, h2>>, key |-> key, ignore |-> ignore]

Runs ==
    { Run(<<"id", "a">>, <<"a", "id">>, <<"id">>, {}),
      Run(<<"id", "a">>, <<"a", "id">>, <<"id">>, {"a"}),
      Run(<<"id", "k2">>, <<"id", "a">>, <<"id">>, {}),
      Run(<<"id", "k2">>, <<"id", "a">>, <<"id">>, {"a"}),
      Run(<<"id", "k2">>, <<"id", "k2">>, <<"id">>, {}),
      Run(<<"id", "k2">>, <<"id", "k2">>, <<"id", "k2">>, {}),
      Run(<<"id", "k2">>, <<"id", "a">>, <<"id", "k2">>, {}),
      Run(<<"id", "a">>, <<"id", "k2">>, <<"id", "k2">>, {"a"}) }

\* The field values a record may hold in the column of each name.
ColVals(name) ==
    CASE name = "id" -> {"", "x", "|"}
      [] name = "k2" -> {"", "|"}
      [] OTHER -> {"x", "y"}

FieldVals == {"", "x", "y", "|"}

\* The records a file with this header row can hold: the reader is not
\* flexible, so every record has as many fields as the header.
Records(headers) ==
    { r \in [1..Len(headers) -> FieldVals] :
        \A i \in 1..Len(headers) : r[i] \in ColVals(headers[i]) }

(***************************************************************************)
(* Strings.                                                                *)
(***************************************************************************)
\* A Result or Option holding a string: ok says whether val is there.
Ok(s) == [ok |-> TRUE, val |-> s]
Failed == [ok |-> FALSE, val |-> ""]

CharAt(s, i) == SubSeq(s, i, i)

Utf8Width(c) == IF c = "E" THEN 2 ELSE 1

\* str::len: the length in bytes.
RECURSIVE ByteLen(_)
ByteLen(s) ==
    IF Len(s) = 0 THEN 0
    ELSE Utf8Width(CharAt(s, 1)) + ByteLen(SubSeq(s, 2, Len(s)))

\* The first k characters of s take `bytes` bytes: the prefix of n bytes, if
\* n bytes end on a character's boundary.
RECURSIVE SliceFrom(_, _, _, _)
SliceFrom(s, k, bytes, n) ==
    IF bytes = n THEN Ok(SubSeq(s, 1, k))
    ELSE IF bytes > n \/ k = Len(s) THEN Failed
    ELSE SliceFrom(s, k + 1, bytes + Utf8Width(CharAt(s, k + 1)), n)

\* &s[..n]: the first n bytes; a panic when n is past the end or inside a
\* character.
ByteSlice(s, n) == IF n < 0 THEN Failed ELSE SliceFrom(s, 0, 0, n)

\* .chars().take(n).collect::<String>()
TakeChars(s, n) == IF Len(s) <= n THEN s ELSE SubSeq(s, 1, n)

\* [&str]::join
RECURSIVE Join(_, _)
Join(parts, sep) ==
    IF Len(parts) = 0 THEN ""
    ELSE IF Len(parts) = 1 THEN parts[1]
    ELSE parts[1] \o sep \o Join(Tail(parts), sep)

(***************************************************************************)
(* read_csv_to_map                                                         *)
(***************************************************************************)
\* headers.iter().position(|h| h == key); 0 stands for None.
Position(headers, key) ==
    LET hits == { i \in 1..Len(headers) : headers[i] = key }
    IN IF hits = {} THEN 0
       ELSE CHOOSE i \in hits : \A j \in hits : i <= j

\* A faulty variant: a key column that is no header is let through.
KeyIndexesLenient(headers, key_columns) ==
    [ok |-> TRUE,
     idx |-> [i \in 1..Len(key_columns) |-> Position(headers, key_columns[i])],
     msg |-> <<>>]

\* key_columns.iter().map(..).collect::<Result<_, _>>(): the positions, or
\* the error of the first key column that is not a header.
KeyIndexes(headers, key_columns) ==
    LET missing == { i \in 1..Len(key_columns) :
                        Position(headers, key_columns[i]) = 0 }
    IN IF missing = {}
       THEN [ok |-> TRUE,
             idx |-> [i \in 1..Len(key_columns) |->
                         Position(headers, key_columns[i])],
             msg |-> <<>>]
       ELSE [ok |-> FALSE,
             idx |-> <<>>,
             msg |-> <<"Key column not found",
                       key_columns[CHOOSE i \in missing :
                                      \A j \in missing : i <= j]>>]

\* record.get(i).unwrap_or("")
GetOrEmpty(record, i) == IF i \in 1..Len(record) THEN record[i] ELSE ""

\* A faulty variant: each key field is read one position too far.
KeyPartsOffByOne(record, idx) ==
    [i \in 1..Len(idx) |-> GetOrEmpty(record, idx[i] + 1)]

\* key_indexes.iter().map(|&i| record.get(i).unwrap_or("")).collect()
KeyParts(record, idx) == [i \in 1..Len(idx) |-> GetOrEmpty(record, idx[i])]

\* key_parts.join("|")
CompositeKey(record, idx) == Join(KeyParts(record, idx), "|")

EmptyMap == [k \in {} |-> <<>>]

\* A faulty variant: the first row of a key is kept.
InsertIfAbsent(m, k, v) ==
    [x \in DOMAIN m \cup {k} |-> IF x \in DOMAIN m THEN m[x] ELSE v]

\* HashMap::insert: the value of an existing key is replaced.
Insert(m, k, v) ==
    [x \in DOMAIN m \cup {k} |-> IF x = k THEN v ELSE m[x]]

(***************************************************************************)
(* main: the column comparison of a key both maps hold                     *)
(***************************************************************************)
Range(f) == { f[i] : i \in DOMAIN f }

\* headers.iter().enumerate().map(|(i, h)| (h.clone(), i)).collect(): the
\* first n headers; a later header of the same name replaces the earlier.
RECURSIVE HeaderMapOf(_, _)
HeaderMapOf(headers, n) ==
    IF n = 0 THEN [h \in {} |-> 0]
    ELSE Insert(HeaderMapOf(headers, n - 1), headers[n], n)

\* A faulty variant: only the columns of file1 are visited.
AllColumnsOfFile1Only(h1, h2) == Range(h1)

\* headers1.iter().chain(headers2.iter()).cloned().collect::<HashSet<_>>()
AllColumns(h1, h2) == Range(h1) \cup Range(h2)

\* A faulty variant: ignored columns are compared.
SkippedKeyOnly(col_name) == col_name \in Range(args.key)

\* args.key.contains(&col_name) || args.ignore.contains(&col_name)
Skipped(col_name) == col_name \in Range(args.key) \/ col_name \in args.ignore

\* headers_map.get(&col_name).and_then(|&i| r.get(i)).unwrap_or("")
CellOf(headers_map, col_name, r) ==
    IF col_name \in DOMAIN headers_map
    THEN GetOrEmpty(r, headers_map[col_name])
    ELSE ""

\* A faulty variant: the value of file2 is read at the position the column
\* has in file1.
V2Positional(col_name, r2) == CellOf(headers1_map, col_name, r2)

V1(col_name, r1) == CellOf(headers1_map, col_name, r1)
V2(col_name, r2) == CellOf(headers2_map, col_name, r2)

DiffRow(key, column, file1, file2) ==
    [key |-> key, column |-> column, file1 |-> file1, file2 |-> file2]

\* One iteration of the loop over all_columns: the rows it pushes.
ColumnDiff(key, col_name, r1, r2) ==
    IF Skipped(col_name) THEN <<>>
    ELSE LET v1 == V1(col_name, r1)
             v2 == V2(col_name, r2)
             in1 == col_name \in DOMAIN headers1_map
             in2 == col_name \in DOMAIN headers2_map
         IN  IF in1 /\ in2
             THEN IF v1 # v2 THEN << DiffRow(key, col_name, v1, v2) >>
                  ELSE <<>>
             ELSE IF in1
             THEN << DiffRow(key, col_name, v1, "[column not in file2]") >>
             ELSE << DiffRow(key, col_name, "[column not in file1]", v2) >>

\* The loop over all_columns, in the order the set yields its elements.
RECURSIVE ColumnDiffs(_, _, _, _)
ColumnDiffs(key, order, r1, r2) ==
    IF Len(order) = 0 THEN <<>>
    ELSE ColumnDiff(key, order[1], r1, r2)
             \o ColumnDiffs(key, Tail(order), r1, r2)

\* The orders in which a HashSet may yield its elements.
Orders(S) ==
    { o \in [1..Cardinality(S) -> S] :
        \A i, j \in 1..Cardinality(S) : i # j => o[i] # o[j] }

(***************************************************************************)
(* main: the preview of a row only one map holds                           *)
(***************************************************************************)
PreviewChars == 50
PreviewCut == 47

\* r.iter().collect::<Vec<_>>().join(",").chars().take(50).collect(), then
\* format!("{}...", &preview[..47]) when preview.len() >= 50.
Preview(r) ==
    LET joined == Join(r, ",")
        preview == TakeChars(joined, PreviewChars)
    IN  IF ByteLen(preview) >= PreviewChars
        THEN LET cut == ByteSlice(preview, PreviewCut)
             IN  IF cut.ok THEN Ok(cut.val \o "...") ELSE Failed
        ELSE Ok(preview)

(***************************************************************************)
(* main: the state machine                                                 *)
(***************************************************************************)
\* A faulty variant: only the keys of map1 are visited.
AllKeysOfMap1Only(m1, m2) == DOMAIN m1

\* map1.keys().chain(map2.keys()).collect::<HashSet<_>>()
AllKeys(m1, m2) == DOMAIN m1 \cup DOMAIN m2

\* The arm of match (map1.get(key), map2.get(key)).
MatchArm(m1, m2, key) ==
    IF key \in DOMAIN m1
    THEN IF key \in DOMAIN m2 THEN "both" ELSE "left"
    ELSE IF key \in DOMAIN m2 THEN "right" ELSE "neither"

NoTable == [pending |-> TRUE, ok |-> FALSE, rows |-> <<>>, summary |-> <<>>]
NoPreview == [pending |-> TRUE, ok |-> FALSE, rows |-> <<>>]

InitMain ==
    /\ \E run \in Runs :
          /\ args = [key |-> run.key, ignore |-> run.ignore]
          /\ csv = run.csv
    /\ pc = "open"
    /\ call = 1
    /\ key_indexes = [f \in {1, 2} |-> <<>>]
    /\ map = EmptyMap
    /\ consumed = <<>>
    /\ headers1 = <<>> /\ map1 = EmptyMap
    /\ headers2 = <<>> /\ map2 = EmptyMap
    /\ headers1_map = EmptyMap /\ headers2_map = EmptyMap
    /\ all_keys = {}
    /\ visited = <<>>
    /\ diffs = <<>>
    /\ warned = FALSE
    /\ printed = "nothing"
    /\ excel = "nothing"
    /\ err = <<>>

TableIdle == t_in = <<>> /\ t_out = NoTable
PreviewIdle == p_in = <<>> /\ p_out = NoPreview

MainIdle ==
    /\ args = [key |-> <<>>, ignore |-> {}]
    /\ csv = <<<<>>, <<>>>>
    /\ pc = "idle"
    /\ call = 0
    /\ key_indexes = [f \in {1, 2} |-> <<>>]
    /\ map = EmptyMap
    /\ consumed = <<>>
    /\ headers1 = <<>> /\ map1 = EmptyMap
    /\ headers2 = <<>> /\ map2 = EmptyMap
    /\ headers1_map = EmptyMap /\ headers2_map = EmptyMap
    /\ all_keys = {}
    /\ visited = <<>>
    /\ diffs = <<>>
    /\ warned = FALSE
    /\ printed = "nothing"
    /\ excel = "nothing"
    /\ err = <<>>

Init == InitMain /\ TableIdle /\ PreviewIdle

\* read_csv_to_map, lines 51-64: the reader is opened, the header row read
\* and the key columns resolved.
OpenCsv ==
    /\ pc = "open"
    /\ LET r == KeyIndexes(csv[call], args.key)
       IN  IF r.ok
           THEN /\ key_indexes' = [key_indexes EXCEPT ![call] = r.idx]
                /\ pc' = "records"
                /\ err' = err
           ELSE /\ pc' = "error"
                /\ err' = r.msg
                /\ key_indexes' = key_indexes
    /\ map' = EmptyMap
    /\ consumed' = <<>>
    /\ UNCHANGED <<args, csv, call, headers1, map1, headers2, map2,
                   headers1_map, headers2_map, all_keys, visited, diffs,
                   warned, printed, excel, t_in, t_out, p_in, p_out>>

\* from_path(path)?, rdr.headers()? or a record's result? fails.
CsvError ==
    /\ pc \in {"open", "records"}
    /\ pc' = "error"
    /\ err' = <<"csv error">>
    /\ UNCHANGED <<args, csv, call, key_indexes, map, consumed, headers1,
                   map1, headers2, map2, headers1_map, headers2_map,
                   all_keys, visited, diffs, warned, printed, excel,
                   t_in, t_out, p_in, p_out>>

\* One iteration of the loop over rdr.records(), lines 65-73.
ReadRecord ==
    /\ pc = "records"
    /\ Len(consumed) < MaxRecords
    /\ \E record \in Records(csv[call]) :
          /\ map' = Insert(map, CompositeKey(record, key_indexes[call]), record)
          /\ consumed' = Append(consumed, record)
    /\ UNCHANGED <<args, csv, pc, call, key_indexes, headers1, map1,
                   headers2, map2, headers1_map, headers2_map, all_keys,
                   visited, diffs, warned, printed, excel, err,
                   t_in, t_out, p_in, p_out>>

\* The records are exhausted: Ok((headers, map)), line 75, bound by main at
\* line 372 or 373.
ReturnMap ==
    /\ pc = "records"
    /\ IF call = 1
       THEN /\ headers1' = csv[1] /\ map1' = map
            /\ call' = 2 /\ pc' = "open"
            /\ UNCHANGED <<headers2, map2>>
       ELSE /\ headers2' = csv[2] /\ map2' = map
            /\ call' = call /\ pc' = "compare"
            /\ UNCHANGED <<headers1, map1>>
    /\ UNCHANGED <<args, csv, key_indexes, map, consumed, headers1_map,
                   headers2_map, all_keys, visited, diffs, warned, printed,
                   excel, err, t_in, t_out, p_in, p_out>>

\* main, lines 375-385.
Prepare ==
    /\ pc = "compare"
    /\ warned' = (headers1 # headers2)
    /\ headers1_map' = HeaderMapOf(headers1, Len(headers1))
    /\ headers2_map' = HeaderMapOf(headers2, Len(headers2))
    /\ diffs' = <<>>
    /\ all_keys' = AllKeys(map1, map2)
    /\ map' = EmptyMap
    /\ consumed' = <<>>
    /\ pc' = "loop"
    /\ UNCHANGED <<args, csv, call, key_indexes, headers1, map1, headers2,
                   map2, visited, printed, excel, err, t_in, t_out, p_in,
                   p_out>>

\* The arms (Some(r1), None) and (None, Some(r2)), lines 430-471: the row
\* pushed for a record only one map holds, or a panic.
MissingRow(key, arm, r) ==
    LET p == Preview(r)
    IN  [ok |-> p.ok,
         rows |-> IF arm = "left"
                  THEN << DiffRow(key, "[missing in file2]", p.val, "") >>
                  ELSE << DiffRow(key, "[missing in file1]", "", p.val) >>]

\* The rows one iteration of the loop over all_keys pushes, lines 388-473,
\* or a panic.
Iteration(key, order) ==
    LET arm == MatchArm(map1, map2, key)
    IN  CASE arm = "both" ->
               [ok |-> TRUE,
                rows |-> ColumnDiffs(key, order, map1[key], map2[key])]
          [] arm = "left" -> MissingRow(key, arm, map1[key])
          [] arm = "right" -> MissingRow(key, arm, map2[key])
          [] OTHER -> [ok |-> FALSE, rows |-> <<>>]

\* One iteration of the loop over all_keys, lines 387-474.
LoopBody ==
    /\ pc = "loop"
    /\ \E key \in all_keys :
       \E order \in IF MatchArm(map1, map2, key) = "both"
                    THEN Orders(AllColumns(headers1, headers2))
                    ELSE { <<>> } :
          LET it == Iteration(key, order)
          IN  /\ visited' = Append(visited, <<key, MatchArm(map1, map2, key)>>)
              /\ all_keys' = all_keys \ {key}
              /\ IF it.ok
                 THEN diffs' = diffs \o it.rows /\ pc' = pc
                 ELSE diffs' = diffs /\ pc' = "panic"
    /\ UNCHANGED <<args, csv, call, key_indexes, map, consumed, headers1,
                   map1, headers2, map2, headers1_map, headers2_map, warned,
                   printed, excel, err, t_in, t_out, p_in, p_out>>

\* main, lines 476-487, once the loop is over: the table, or the line that
\* says there is none, and then the report when --excel-output is given;
\* saving the workbook may fail.  The text of the table is that of
\* create_summary_table, which SpecTable covers on its own.
Report ==
    /\ pc = "loop"
    /\ all_keys = {}
    /\ printed' = IF diffs = <<>> THEN "no differences" ELSE "table"
    /\ \E requested \in BOOLEAN, saved \in BOOLEAN :
          IF requested
          THEN IF saved
               THEN excel' = "written" /\ pc' = "done" /\ err' = err
               ELSE excel' = excel /\ pc' = "error"
                    /\ err' = <<"xlsx error">>
          ELSE excel' = excel /\ pc' = "done" /\ err' = err
    /\ UNCHANGED <<args, csv, call, key_indexes, map, consumed, headers1,
                   map1, headers2, map2, headers1_map, headers2_map,
                   all_keys, visited, diffs, warned,
                   t_in, t_out, p_in, p_out>>

Next ==
    \/ OpenCsv
    \/ CsvError
    \/ ReadRecord
    \/ ReturnMap
    \/ Prepare
    \/ LoopBody
    \/ Report

Spec == Init /\ [][Next]_vars

(***************************************************************************)
(* The missing-row arms on rows of any length: a row is drawn and one of   *)
(* the two arms builds its DiffRow.                                        *)
(***************************************************************************)
MaxFieldLen == 52

RECURSIVE Repeat(_, _)
Repeat(c, n) == IF n = 0 THEN "" ELSE c \o Repeat(c, n - 1)

PreviewRows ==
    { <<Repeat("a", n), tail>> : n \in 0..MaxFieldLen,
                                 tail \in {"", "b", "E", "EE"} }

InitPreview ==
    /\ MainIdle
    /\ TableIdle
    /\ p_in \in PreviewRows
    /\ p_out = NoPreview

PushMissingRow ==
    /\ p_out.pending
    /\ \E arm \in {"left", "right"} :
          LET it == MissingRow("k", arm, p_in)
          IN  p_out' = [pending |-> FALSE, ok |-> it.ok, rows |-> it.rows]
    /\ UNCHANGED <<mainVars, t_in, t_out, p_in>>

NextPreview == PushMissingRow

SpecPreview == InitPreview /\ [][NextPreview]_vars

(***************************************************************************)
(* create_summary_table                                                    *)
(***************************************************************************)
EllipsisLen == 3

\* The value a usize subtraction wraps to below zero when overflow checks
\* are off: usize::MAX, as far as the model's integers go.
UsizeMax == 2147483647

SaturatingSub(a, b) == IF a >= b THEN a - b ELSE 0

\* A faulty variant: the subtraction is not saturating.
CutPointUnchecked(max_width) == max_width - EllipsisLen

\* max_width.saturating_sub(3)
CutPoint(max_width) == SaturatingSub(max_width, EllipsisLen)

\* truncate_string, lines 86-92: the string, or a panic of the slice.
TruncateString(s, max_width) ==
    IF ByteLen(s) <= max_width THEN Ok(s)
    ELSE LET cut == ByteSlice(s, CutPoint(max_width))
         IN  IF cut.ok THEN Ok(cut.val \o "...") ELSE Failed

\* Lines 108-113: the four cells of a row, each truncated.
TruncateRow(d, w) ==
    LET k == TruncateString(d.key, w)
        c == TruncateString(d.column, w)
        f1 == TruncateString(d.file1, w)
        f2 == TruncateString(d.file2, w)
    IN  [ok |-> k.ok /\ c.ok /\ f1.ok /\ f2.ok,
         row |-> DiffRow(k.val, c.val, f1.val, f2.val)]

\* The separator row, lines 132-137.
Separator(hidden) ==
    DiffRow("...", "... (" \o ToString(hidden) \o " more rows) ...",
            "...", "...")

\* max_rows - head_rows - 1 in usize, line 124: below zero it panics when
\* the build checks overflow and wraps when it does not.
TailRows(max_rows, head_rows, overflow_checks) ==
    IF max_rows - head_rows >= 1
    THEN [ok |-> TRUE, n |-> max_rows - head_rows - 1]
    ELSE IF overflow_checks
    THEN [ok |-> FALSE, n |-> 0]
    ELSE [ok |-> TRUE, n |-> UsizeMax - (head_rows + 1 - max_rows) + 1]

\* Lines 148-154.
Summary(total_diffs, max_rows) ==
    IF total_diffs > max_rows
    THEN <<"Summary: total differences found", total_diffs,
           "Showing rows", max_rows>>
    ELSE <<"Total differences", total_diffs>>

Shown(ok, rows, summary) ==
    [pending |-> FALSE, ok |-> ok, rows |-> rows, summary |-> summary]

\* create_summary_table, lines 94-157: the rows of the table and the summary
\* under it, or a panic.
CreateSummaryTable(d, max_rows, max_cell_width, no_truncate, overflow_checks) ==
    LET total_diffs == Len(d)
        cells == [i \in 1..Len(d) |-> TruncateRow(d[i], max_cell_width)]
        truncated_diffs == [i \in 1..Len(d) |-> cells[i].row]
        head_rows == max_rows \div 2
        tail_rows == TailRows(max_rows, head_rows, overflow_checks)
        rest == SubSeq(truncated_diffs, head_rows + 1, total_diffs)
        tail == IF tail_rows.n > 0 /\ Len(rest) >= tail_rows.n
                THEN SubSeq(rest, Len(rest) - tail_rows.n + 1, Len(rest))
                ELSE <<>>
    IN  IF no_truncate THEN Shown(TRUE, d, <<>>)
        ELSE IF total_diffs = 0
        THEN Shown(TRUE, <<>>, <<"No differences found.">>)
        ELSE IF \E i \in 1..Len(d) : ~cells[i].ok
        THEN Shown(FALSE, <<>>, <<>>)
        ELSE IF total_diffs <= max_rows
        THEN Shown(TRUE, truncated_diffs, Summary(total_diffs, max_rows))
        ELSE IF ~tail_rows.ok
        THEN Shown(FALSE, <<>>, <<>>)
        ELSE Shown(TRUE,
                   SubSeq(truncated_diffs, 1, head_rows)
                       \o << Separator(total_diffs - max_rows) >>
                       \o tail,
                   Summary(total_diffs, max_rows))

MaxDiffs == 5
MaxRowsArg == 5
MaxWidthArg == 6

\* The rows a call is given.
TableRows ==
    { DiffRow("1", "a", "x", "yyyyyy"),
      DiffRow("22|x", "[missing in file2]", "x,y", ""),
      DiffRow("aEbE", "name", "[column not in file1]", "EEE") }

InitTable ==
    /\ MainIdle
    /\ PreviewIdle
    /\ t_in \in [diffs : UNION { [1..n -> TableRows] : n \in 0..MaxDiffs },
                 max_rows : 0..MaxRowsArg,
                 max_cell_width : 0..MaxWidthArg,
                 no_truncate : BOOLEAN]
    /\ t_out = NoTable

CallCreateSummaryTable ==
    /\ t_out.pending
    /\ \E overflow_checks \in BOOLEAN :
          t_out' = CreateSummaryTable(t_in.diffs, t_in.max_rows,
                                      t_in.max_cell_width, t_in.no_truncate,
                                      overflow_checks)
    /\ UNCHANGED <<mainVars, t_in, p_in, p_out>>

NextTable == CallCreateSummaryTable

SpecTable == InitTable /\ [][NextTable]_vars

(***************************************************************************)
(* Properties of main and read_csv_to_map, checked under Spec.             *)
(***************************************************************************)
VisitedKeys == { visited[i][1] : i \in DOMAIN visited }

RowsOf(key, column) ==
    { i \in DOMAIN diffs : diffs[i].key = key /\ diffs[i].column = column }

MissingRowsOf(key) ==
    { i \in DOMAIN diffs :
        /\ diffs[i].key = key
        /\ diffs[i].column \in {"[missing in file1]", "[missing in file2]"} }

LoopEntered == pc \in {"loop", "done", "panic"} \/ printed # "nothing"
LoopLeft == printed # "nothing"

Names == Range(headers1) \cup Range(headers2)

\* The values a record of file f holds in the key columns, by name.
KeyTuple(record, f) ==
    [i \in 1..Len(args.key) |-> record[Position(csv[f], args.key[i])]]

HasChar(s, c) == \E i \in 1..Len(s) : CharAt(s, i) = c
PipeFree(parts) == \A i \in 1..Len(parts) : ~HasChar(parts[i], "|")

\* C1: the loop of main visits every key of either map exactly once, each
\* visit takes the arm that the key's presence in the two maps selects and
\* pushes that arm's rows, the keys visited when the loop ends are the union
\* of the two maps' keys, and the (None, None) arm is never taken.
C1_UnionCoverage ==
    LoopEntered =>
        /\ pc # "panic"
        /\ \A i, j \in DOMAIN visited : i # j => visited[i][1] # visited[j][1]
        /\ VisitedKeys \cap all_keys = {}
        /\ VisitedKeys \cup all_keys = DOMAIN map1 \cup DOMAIN map2
        /\ LoopLeft => VisitedKeys = DOMAIN map1 \cup DOMAIN map2
        /\ \A i \in DOMAIN visited :
              LET key == visited[i][1]
                  in1 == key \in DOMAIN map1
                  in2 == key \in DOMAIN map2
              IN  /\ visited[i][2] \in {"both", "left", "right"}
                  /\ visited[i][2] = "both" <=> (in1 /\ in2)
                  /\ visited[i][2] = "left" <=> (in1 /\ ~in2)
                  /\ visited[i][2] = "right" <=> (~in1 /\ in2)
                  /\ Cardinality(RowsOf(key, "[missing in file2]"))
                        = IF visited[i][2] = "left" THEN 1 ELSE 0
                  /\ Cardinality(RowsOf(key, "[missing in file1]"))
                        = IF visited[i][2] = "right" THEN 1 ELSE 0
                  /\ visited[i][2] # "both" =>
                        \A n \in DOMAIN diffs :
                            diffs[n].key = key => n \in MissingRowsOf(key)

C1_Witness ==
    /\ pc = "done"
    /\ { visited[i][2] : i \in DOMAIN visited } = {"both", "left", "right"}

\* The map a call has built so far is the last-writer-wins image of the
\* records its reader has yielded so far.
LastWins(m, idx) ==
    /\ DOMAIN m = { CompositeKey(consumed[i], idx) : i \in DOMAIN consumed }
    /\ \A i \in DOMAIN consumed :
          (\A j \in DOMAIN consumed :
              j > i => CompositeKey(consumed[j], idx)
                         # CompositeKey(consumed[i], idx))
          => m[CompositeKey(consumed[i], idx)] = consumed[i]

\* C3: whatever records read_csv_to_map has read, its map holds exactly one
\* row for each composite key among them, the last record in input order
\* with that key, and so does the map it returns to main; a repeated key
\* raises no error.
C3_LastRowWins ==
    /\ pc = "records" => LastWins(map, key_indexes[call])
    /\ (pc = "open" /\ call = 2) => LastWins(map1, key_indexes[1])
    /\ pc = "compare" => LastWins(map2, key_indexes[2])
    /\ pc = "error" => err[1] # "duplicate key"

C3_Witness ==
    /\ pc = "compare"
    /\ Len(consumed) = 2
    /\ consumed[1] # consumed[2]
    /\ CompositeKey(consumed[1], key_indexes[2])
          = CompositeKey(consumed[2], key_indexes[2])
    /\ Cardinality(DOMAIN map2) = 1

Comparable(col_name) ==
    /\ col_name \in Range(headers1) \cap Range(headers2)
    /\ col_name \notin Range(args.key)
    /\ col_name \notin args.ignore

BothVisited(key) ==
    /\ key \in VisitedKeys
    /\ key \in DOMAIN map1 \cap DOMAIN map2

Raw1(key, col_name) == map1[key][Position(headers1, col_name)]
Raw2(key, col_name) == map2[key][Position(headers2, col_name)]

\* C4: for a key both maps hold, once the loop has visited it, and a column
\* of both headers that is neither a key column nor ignored: diffs holds
\* exactly one row (key, column, v1, v2) when the two records' values in
\* that column differ, and no row when they are equal.
C4_ComparableColumns ==
    LoopEntered =>
        \A key \in VisitedKeys : \A col_name \in Names :
            (BothVisited(key) /\ Comparable(col_name)) =>
                LET v1 == Raw1(key, col_name)
                    v2 == Raw2(key, col_name)
                    rows == RowsOf(key, col_name)
                IN  IF v1 # v2
                    THEN /\ Cardinality(rows) = 1
                         /\ \A i \in rows :
                               diffs[i] = DiffRow(key, col_name, v1, v2)
                    ELSE rows = {}

C4_Witness ==
    /\ pc = "done"
    /\ headers1 # headers2
    /\ \E key \in VisitedKeys : \E c1 \in Names :
          /\ BothVisited(key) /\ Comparable(c1)
          /\ Raw1(key, c1) # Raw2(key, c1)
          /\ Cardinality(RowsOf(key, c1)) = 1
    /\ \E key \in VisitedKeys : \E c \in Names :
          /\ BothVisited(key) /\ Comparable(c)
          /\ Raw1(key, c) = Raw2(key, c)

OneSided(col_name) ==
    /\ (col_name \in Range(headers1)) # (col_name \in Range(headers2))
    /\ col_name \notin args.ignore

\* C6: when the headers differ, for a key both maps hold, once the loop has
\* visited it, and a column of only one header that is not ignored: diffs
\* holds exactly one row for (key, column); the side of the file without
\* the column is the column-absent sentinel and the other side is the
\* record's value in that column.
C6_OneSidedColumns ==
    (LoopEntered /\ headers1 # headers2) =>
        \A key \in VisitedKeys : \A col_name \in Names :
            (BothVisited(key) /\ OneSided(col_name)) =>
                LET rows == RowsOf(key, col_name)
                IN  /\ Cardinality(rows) = 1
                    /\ \A i \in rows :
                          diffs[i] =
                              IF col_name \in Range(headers1)
                              THEN DiffRow(key, col_name, Raw1(key, col_name),
                                           "[column not in file2]")
                              ELSE DiffRow(key, col_name,
                                           "[column not in file1]",
                                           Raw2(key, col_name))

C6_Witness ==
    /\ pc = "done"
    /\ warned
    /\ \E key \in VisitedKeys :
          /\ BothVisited(key)
          /\ \E c \in Range(headers1) \ Range(headers2) : OneSided(c)
          /\ \E c \in Range(headers2) \ Range(headers1) : OneSided(c)

MissingIn(f) == \E i \in 1..Len(args.key) : Position(csv[f], args.key[i]) = 0

\* C7: when a key column is missing from the header of either file, the
\* call of read_csv_to_map on that file ends in an error before it reads a
\* record, and main pushes no row, prints nothing and writes no report.
C7_UnknownKeyIsFatal ==
    (MissingIn(1) \/ MissingIn(2)) =>
        /\ pc \in {"open", "records", "error"}
        /\ MissingIn(call) => pc \in {"open", "error"}
        /\ MissingIn(1) => call = 1
        /\ diffs = <<>> /\ visited = <<>>
        /\ printed = "nothing"
        /\ excel = "nothing"

C7_Witness ==
    /\ pc = "error"
    /\ err = <<"Key column not found", "k2">>
    /\ call = 2
    /\ ~MissingIn(1)
    /\ map1 # EmptyMap

\* C10 as stated: a record is never overwritten in the map by a record
\* whose key-column values differ, and the two records the loop matches
\* under one key hold the same key-column values.
C10_KeyInjective ==
    /\ pc = "records" =>
          \A i \in DOMAIN consumed :
              \E k \in DOMAIN map :
                  KeyTuple(map[k], call) = KeyTuple(consumed[i], call)
    /\ LoopEntered =>
          \A key \in DOMAIN map1 \cap DOMAIN map2 :
              KeyTuple(map1[key], 1) = KeyTuple(map2[key], 2)

\* C10, amended: a record whose key-column values hold no '|', or whose key
\* is a single column, is never overwritten in the map by a record whose
\* key-column values differ; and the two records the loop matches under one
\* key hold the same key-column values when either's hold no '|' or the key
\* is a single column.
C10_KeyInjectiveWithoutPipe ==
    /\ pc = "records" =>
          \A i \in DOMAIN consumed :
              LET t == KeyTuple(consumed[i], call)
              IN  (PipeFree(t) \/ Len(t) < 2) =>
                      \E k \in DOMAIN map : KeyTuple(map[k], call) = t
    /\ LoopEntered =>
          \A key \in DOMAIN map1 \cap DOMAIN map2 :
              LET t1 == KeyTuple(map1[key], 1)
                  t2 == KeyTuple(map2[key], 2)
              IN  (PipeFree(t1) \/ PipeFree(t2) \/ Len(t1) < 2) => t1 = t2

C10_Witness ==
    /\ pc = "done"
    /\ Len(args.key) = 2
    /\ \E k1, k2 \in DOMAIN map1 :
          /\ k1 # k2
          /\ PipeFree(KeyTuple(map1[k1], 1))
          /\ PipeFree(KeyTuple(map1[k2], 1))
          /\ k1 \in DOMAIN map2
          /\ k2 \notin DOMAIN map2

(***************************************************************************)
(* Properties of the missing-row arms, checked under SpecPreview.          *)
(***************************************************************************)
\* C8: the row pushed for a record only one map holds carries, on the side
\* of the file that has it, the record's fields joined with commas when that
\* is at most 50 characters and else its first 47 characters and "...", never
\* more than 50 characters; the other side is empty.
C8_PreviewOfMissingRow ==
    ~p_out.pending =>
        /\ p_out.ok
        /\ Len(p_out.rows) = 1
        /\ LET joined == Join(p_in, ",")
               row == p_out.rows[1]
               left == row.column = "[missing in file2]"
               preview == IF left THEN row.file1 ELSE row.file2
               other == IF left THEN row.file2 ELSE row.file1
           IN  /\ preview = IF Len(joined) <= PreviewChars
                            THEN joined
                            ELSE SubSeq(joined, 1, PreviewCut) \o "..."
               /\ Len(preview) <= PreviewChars
               /\ other = ""

(***************************************************************************)
(* Properties of create_summary_table, checked under SpecTable.            *)
(***************************************************************************)
Windowed ==
    /\ ~t_out.pending
    /\ ~t_in.no_truncate
    /\ t_in.max_rows < Len(t_in.diffs)

\* C2: with no_truncate off and 0 <= max_rows < L, the table shows the first
\* max_rows / 2 rows, one separator that says L - max_rows, and the last
\* max_rows - 1 - max_rows / 2 rows, each with its cells truncated.
C2_TruncationCount ==
    Windowed =>
        /\ t_out.ok
        /\ LET d == t_in.diffs
               L == Len(d)
               M == t_in.max_rows
               head == M \div 2
               tail == M - 1 - head
               cut(i) == TruncateRow(d[i], t_in.max_cell_width).row
           IN  /\ Len(t_out.rows) = head + 1 + tail
               /\ head + tail <= L
               /\ \A i \in 1..head : t_out.rows[i] = cut(i)
               /\ t_out.rows[head + 1] = Separator(L - M)
               /\ \A j \in 1..tail : t_out.rows[head + 1 + j] = cut(L - tail + j)

Cells == {"key", "column", "file1", "file2"}

Max(a, b) == IF a >= b THEN a ELSE b

IsSeparator(row) ==
    /\ t_in.max_rows < Len(t_in.diffs)
    /\ row = Separator(Len(t_in.diffs) - t_in.max_rows)

Truncating == ~t_out.pending /\ ~t_in.no_truncate /\ t_in.diffs # <<>>

CellShown(orig, shown, w) ==
    /\ ByteLen(shown) <= Max(w, EllipsisLen)
    /\ Len(shown) <= Max(w, EllipsisLen)
    /\ ByteLen(orig) <= w => shown = orig
    /\ ByteLen(orig) > w =>
          \E k \in 0..Len(orig) :
              /\ ByteLen(SubSeq(orig, 1, k)) = Max(w - EllipsisLen, 0)
              /\ shown = SubSeq(orig, 1, k) \o "..."

\* A cell longer than the width whose cut falls inside a character.
CutInsideCharacter(orig, w) ==
    /\ ByteLen(orig) > w
    /\ \A k \in 0..Len(orig) :
          ByteLen(SubSeq(orig, 1, k)) # Max(w - EllipsisLen, 0)

====
